---- MODULE Spec2Model ----
(***************************************************************************)
(* Model of the dev-context Jira ticket analyzer: the interactive loop     *)
(* (main), the ticket fetch (fetchJiraTicket), the model invocation        *)
(* (analyzeWithOllama), the one-shot Go listing program, and the pull      *)
(* request fetch described by the design document.                         *)
(***************************************************************************)
EXTENDS Integers, Sequences, FiniteSets, TLC

\* ------------------------------------------------------------------ bounds
MaxIter == 2          \* loop iterations the user drives before walking away

\* ------------------------------------------------------- program constants
maxRetries == 2       \* new Ollama({ ..., maxRetries: 2 })

\* ---------------------------------------------------------- JavaScript values
Undefined == [t |-> "undefined"]
Null == [t |-> "null"]
Str(s) == [t |-> "string", v |-> s]
Obj(p) == [t |-> "object", p |-> p]
Arr(e) == [t |-> "array", e |-> e]
SyntaxError == [t |-> "SyntaxError"]

\* !x  on the values the program handles
Falsy(x) == x.t \in {"undefined", "null"} \/ (x.t = "string" /\ x.v = "")

\* a ?? b, which keeps an empty string
NullishOr(a, b) == IF a.t \in {"undefined", "null"} THEN b ELSE a

\* a || b
Or(a, b) == IF Falsy(a) THEN b ELSE a

\* x.f throws a TypeError exactly when x is undefined or null
Throws(x) == x.t \in {"undefined", "null"}

\* x.f when it does not throw
Get(x, f) == IF x.t = "object" /\ f \in DOMAIN x.p THEN x.p[f] ELSE Undefined

\* a[n] for an array a, counting from 0
At(a, n) == IF n + 1 \in 1..Len(a.e) THEN a.e[n + 1] ELSE Undefined

\* `${x}`
TemplateString(x) ==
  CASE x.t = "string" -> x.v
    [] x.t = "undefined" -> "undefined"
    [] x.t = "null" -> "null"
    [] OTHER -> "[object Object]"

\* ------------------------------------------------------------------ strings
\* A line typed at the prompt is a sequence of characters.
IsSpace(c) == c = " "

RECURSIVE TrimStart(_)
TrimStart(s) ==
  IF s = <<>> THEN <<>>
  ELSE IF IsSpace(Head(s)) THEN TrimStart(Tail(s)) ELSE s

RECURSIVE TrimEnd(_)
TrimEnd(s) ==
  IF s = <<>> THEN <<>>
  ELSE IF IsSpace(s[Len(s)]) THEN TrimEnd(SubSeq(s, 1, Len(s) - 1)) ELSE s

\* the input taken as typed
NoTrim(s) == s

\* String.prototype.trim
Trim(s) == TrimEnd(TrimStart(s))

\* what the user may type at the question
Inputs == { <<>>, <<" ">>, <<" ", "P", "1", " ">> }

\* -------------------------------------------------------------- environment
EnvValues == { Undefined, Str(""), Str("set") }
Domains == EnvValues \cup { Str("bad host") }
Environments == [ JIRA_EMAIL : EnvValues, JIRA_API_TOKEN : EnvValues,
                  JIRA_DOMAIN : Domains ]

\* whether `https://${jiraDomain}/rest/api/2/search?jql=...` is a URL that
\* fetch and http.NewRequest accept
ValidUrl(e) == e.JIRA_DOMAIN # Str("bad host")

\* ----------------------------------------------------------- HTTP responses
Statuses == { 200, 204, 404 }

\* a status test that lets client errors through
OkBelow500(status) == status >= 200 /\ status <= 499

\* response.ok
Ok(status) == status >= 200 /\ status <= 299

IssueA == Obj("key" :> Str("PROJ-1") @@
              "fields" :> Obj("summary" :> Str("Fix bug") @@
                              "description" :> Str("") @@
                              "status" :> Obj("name" :> Str("Open"))))
IssueB == Obj("key" :> Str("PROJ-2") @@
              "fields" :> Obj("summary" :> Str("Add log") @@
                              "description" :> Null @@
                              "status" :> Obj("name" :> Str("Done"))))
IssueC == Obj("key" :> Str("PROJ-3") @@
              "fields" :> Obj("summary" :> Str("Crash") @@
                              "description" :> Str("Steps") @@
                              "status" :> Obj("name" :> Str("Open"))))
IssueD == Obj("key" :> Str("PROJ-6") @@
              "fields" :> Obj("summary" :> Str("Bare") @@
                              "status" :> Obj("name" :> Str("Open"))))
IssueNoFields == Obj("key" :> Str("PROJ-4"))
IssueNoStatus == Obj("key" :> Str("PROJ-5") @@
                     "fields" :> Obj("summary" :> Str("Half")))

\* raw response bodies the ticket source may send
Bodies == { "<html>", "{}", "issues:[]", "issues:[A]", "issues:[B]",
            "issues:[C]", "issues:[D]", "issues:[C,A]", "issues:[NoFields]",
            "issues:[NoStatus]" }

\* JSON.parse, on the bodies above
JSONParse(raw) ==
  CASE raw = "{}" -> Obj(<<>>)
    [] raw = "issues:[]" -> Obj("issues" :> Arr(<<>>))
    [] raw = "issues:[A]" -> Obj("issues" :> Arr(<<IssueA>>))
    [] raw = "issues:[B]" -> Obj("issues" :> Arr(<<IssueB>>))
    [] raw = "issues:[C]" -> Obj("issues" :> Arr(<<IssueC>>))
    [] raw = "issues:[D]" -> Obj("issues" :> Arr(<<IssueD>>))
    [] raw = "issues:[C,A]" -> Obj("issues" :> Arr(<<IssueC, IssueA>>))
    [] raw = "issues:[NoFields]" -> Obj("issues" :> Arr(<<IssueNoFields>>))
    [] raw = "issues:[NoStatus]" -> Obj("issues" :> Arr(<<IssueNoStatus>>))
    [] OTHER -> SyntaxError

NoResponse == [status |-> 0, body |-> "", readable |-> TRUE]
\* what the ticket source may answer: a search result, an empty 204, an
\* error page, or a body whose transfer breaks off
Responses ==
  [status : {200}, body : Bodies, readable : {TRUE}]
    \cup [status : {204}, body : {""}, readable : {TRUE}]
    \cup [status : {404}, body : {"<html>", "issues:[A]"}, readable : {TRUE}]
    \cup [status : {200, 404}, body : {""}, readable : {FALSE}]

\* ------------------------------------------------------------ console output
Line(i, k, s, n, tk) == [it |-> i, k |-> k, s |-> s, n |-> n, tk |-> tk]
LS(i, k, s) == Line(i, k, s, 0, <<>>)

\* a step of straight-line code: a line printed, or an exception thrown
THROW == [it |-> 0, k |-> "throw", s |-> "", n |-> 0, tk |-> <<>>]

RECURSIVE UpToThrow(_)
UpToThrow(steps) ==
  IF steps = <<>> \/ Head(steps) = THROW THEN <<>>
  ELSE <<Head(steps)>> \o UpToThrow(Tail(steps))

HasThrow(steps) == \E j \in 1..Len(steps) : steps[j] = THROW

\* ------------------------------------------------------------------- state
VARIABLES program,   \* which program of the repository runs: "ts" or "go"
          env,       \* process.env / os.Getenv, read-only
          mainPc,    \* position of main
          iter,      \* number of questions asked so far
          tasks,     \* tasks[i]: the fetchJiraTicket call of iteration i
          out,       \* the console, in order of printing
          goPc,      \* position of the Go program's main
          goResp,    \* the Go program's resp and body
          goGets,    \* requests the Go program handed to client.Do
          prCall,    \* the pull request fetch in progress: its inputs and position
          metaReq,   \* the pull request metadata request
          filesReq,  \* the pull request file list request
          context    \* the DevelopmentContext's pullRequest field and the signal raised

vars == <<program, env, mainPc, iter, tasks, out, goPc, goResp, goGets,
          prCall, metaReq, filesReq, context>>
goVars == <<goPc, goResp, goGets>>
prVars == <<prCall, metaReq, filesReq, context>>

NoInput == [key |-> Undefined, summary |-> Undefined,
            description |-> Undefined, status |-> Undefined]

IdleTask == [pc |-> "idle", ticketNumber |-> <<>>, response |-> NoResponse,
             modelInput |-> NoInput, attempts |-> 0, gets |-> 0, invokes |-> 0]

\* result of running a stretch of code: what it printed, what it threw
Ran(lines) == [lines |-> lines, thrown |-> ""]
Threw(lines, error) == [lines |-> lines, thrown |-> error]

\* fetchJiraTicket without its catch clause
fetchCatchMissing(i, r) == r

\* } catch (error) { console.error('Error fetching Jira data:', error); }
fetchCatch(i, r) ==
  IF r.thrown # ""
  THEN Ran(r.lines \o <<LS(i, "Error fetching Jira data:", r.thrown)>>)
  ELSE r

\* } catch (error) { console.error('Error analyzing with Ollama:', error); }
analyzeCatch(i, r) ==
  IF r.thrown # ""
  THEN Ran(r.lines \o <<LS(i, "Error analyzing with Ollama:", r.thrown)>>)
  ELSE r

\* a configuration check that forgets the domain
ConfigMissingNoDomain(e) == Falsy(e.JIRA_EMAIL) \/ Falsy(e.JIRA_API_TOKEN)

\* if (!email || !apiToken || !jiraDomain)
ConfigMissing(e) ==
  Falsy(e.JIRA_EMAIL) \/ Falsy(e.JIRA_API_TOKEN) \/ Falsy(e.JIRA_DOMAIN)

\* the console.log lines that print the ticket, each of which may throw
DetailSteps(i, issue) ==
  LET fields == Get(issue, "fields")
      status == Get(fields, "status")
  IN << LS(i, "Ticket Details:", ""),
        IF Throws(issue) THEN THROW
        ELSE LS(i, "Issue Key:", TemplateString(Get(issue, "key"))),
        IF Throws(issue) \/ Throws(fields) THEN THROW
        ELSE LS(i, "Summary:", TemplateString(Get(fields, "summary"))),
        IF Throws(issue) \/ Throws(fields) \/ Throws(status) THEN THROW
        ELSE LS(i, "Status:", TemplateString(Get(status, "name"))),
        IF Throws(issue) \/ Throws(fields) THEN THROW
        ELSE LS(i, "Description:",
                TemplateString(Or(Get(fields, "description"),
                                  Str("No description provided")))),
        LS(i, "-------------------", "") >>

\* the values handed to chain.invoke
InvokeArgs(issue) ==
  LET fields == Get(issue, "fields")
  IN [key |-> Get(issue, "key"),
      summary |-> Get(fields, "summary"),
      description |-> Or(Get(fields, "description"),
                         Str("No description provided")),
      status |-> Get(Get(fields, "status"), "name")]

InvokeArgsThrow(issue) ==
  LET fields == Get(issue, "fields")
  IN Throws(issue) \/ Throws(fields) \/ Throws(Get(fields, "status"))

\* the prompt template with its four variables filled in
Prompt(args) ==
  << <<"Ticket:", TemplateString(args.key)>>,
     <<"Summary:", TemplateString(args.summary)>>,
     <<"Description:", TemplateString(args.description)>>,
     <<"Status:", TemplateString(args.status)>> >>

\* the code ran to a return or a throw without reaching chain.invoke
Stopped(r) == [r |-> r, invoked |-> FALSE, args |-> NoInput]

\* analyzeWithOllama up to the point where chain.invoke is awaited
AnalyzeCall(i, issue) ==
  LET connect == <<LS(i, "Connecing with model:", "deepseek-r1:14b")>>
  IN IF InvokeArgsThrow(issue)
     THEN [r |-> analyzeCatch(i, Threw(connect, "TypeError")),
           invoked |-> FALSE, args |-> NoInput]
     ELSE [r |-> Ran(connect), invoked |-> TRUE, args |-> InvokeArgs(issue)]

\* fetchJiraTicket without the test for an empty result set
AfterJsonNoEmptyCheck(i, ticketNumber, jiraResp) ==
  LET issues == Get(jiraResp, "issues")
      issue == At(issues, 0)
      steps == DetailSteps(i, issue)
      call == AnalyzeCall(i, issue)
  IN IF Throws(jiraResp) \/ Throws(issues)
     THEN Stopped(Threw(<<>>, "TypeError"))
     ELSE IF HasThrow(steps)
     THEN Stopped(Threw(UpToThrow(steps), "TypeError"))
     ELSE [r |-> [lines |-> steps \o call.r.lines, thrown |-> call.r.thrown],
           invoked |-> call.invoked, args |-> call.args]

\* fetchJiraTicket taking the last issue of the result set
AfterJsonLastIssue(i, ticketNumber, jiraResp) ==
  LET issues == Get(jiraResp, "issues")
      issue == At(issues, Len(issues.e) - 1)
      steps == DetailSteps(i, issue)
      call == AnalyzeCall(i, issue)
  IN IF Throws(jiraResp) \/ Throws(issues)
     THEN Stopped(Threw(<<>>, "TypeError"))
     ELSE IF Len(issues.e) = 0
     THEN Stopped(Ran(<<Line(i, "No ticket found with number", "", 0,
                             ticketNumber)>>))
     ELSE IF HasThrow(steps)
     THEN Stopped(Threw(UpToThrow(steps), "TypeError"))
     ELSE [r |-> [lines |-> steps \o call.r.lines, thrown |-> call.r.thrown],
           invoked |-> call.invoked, args |-> call.args]

\* fetchJiraTicket after response.json() resolved with jiraResp
AfterJson(i, ticketNumber, jiraResp) ==
  LET issues == Get(jiraResp, "issues")
      issue == At(issues, 0)
      steps == DetailSteps(i, issue)
      call == AnalyzeCall(i, issue)
  IN IF Throws(jiraResp) \/ Throws(issues)
     THEN Stopped(Threw(<<>>, "TypeError"))
     ELSE IF Len(issues.e) = 0
     THEN Stopped(Ran(<<Line(i, "No ticket found with number", "", 0,
                             ticketNumber)>>))
     ELSE IF HasThrow(steps)
     THEN Stopped(Threw(UpToThrow(steps), "TypeError"))
     ELSE [r |-> [lines |-> steps \o call.r.lines, thrown |-> call.r.thrown],
           invoked |-> call.invoked, args |-> call.args]

\* the task leaves fetchJiraTicket: its promise resolves or rejects
Leave(r) == IF r.thrown # "" THEN "rejected" ELSE "done"

\* fetchJiraTicket(...) called without await: main carries on at once
NoAwait(promise) == "prompt"

\* await fetchJiraTicket(...): main is suspended until the promise settles
Await(promise) == "awaiting"

\* ---------------------------------------------------- the pull request fetch
NoMeta == [number |-> 0, title |-> "", state |-> ""]
MetaA == [number |-> 42, title |-> "Add feature", state |-> "open"]
MetaB == [number |-> 7, title |-> "Fix typo", state |-> "closed"]
Metas == { MetaA, MetaB }

FileA == [path |-> "a.go", status |-> "modified", additions |-> 3,
          deletions |-> 1, patch |-> "@@ ... @@"]
FileB == [path |-> "b.png", status |-> "added", additions |-> 0,
          deletions |-> 0, patch |-> "absent"]
FileLists == { <<>>, <<FileA>>, <<FileB, FileA>> }

IdleReq == [state |-> "idle", status |-> 0, meta |-> NoMeta, files |-> <<>>]
PendingReq == [IdleReq EXCEPT !.state = "pending"]

\* a settled request: status 0 stands for a request that never got an answer
Settled(status, meta, files) ==
  [state |-> "settled", status |-> status, meta |-> meta, files |-> files]

Absent == [present |-> FALSE, record |-> NoMeta, files |-> <<>>]
Present(record, files) == [present |-> TRUE, record |-> record, files |-> files]

NoSignal == [kind |-> "", metaStatus |-> 0, filesStatus |-> 0]

\* a join that keeps the metadata when only the file list failed
JoinPartial(meta, files) ==
  IF Ok(meta.status)
  THEN [pullRequest |-> Present(meta.meta, files.files), signal |-> NoSignal]
  ELSE [pullRequest |-> Absent,
        signal |-> [kind |-> "UpstreamError", metaStatus |-> meta.status,
                    filesStatus |-> files.status]]

\* both-or-nothing join of the two settled requests
Join(meta, files) ==
  IF Ok(meta.status) /\ Ok(files.status)
  THEN [pullRequest |-> Present(meta.meta, files.files), signal |-> NoSignal]
  ELSE [pullRequest |-> Absent,
        signal |-> [kind |-> "UpstreamError", metaStatus |-> meta.status,
                    filesStatus |-> files.status]]

PrConfigs == [token : BOOLEAN, owner : BOOLEAN]
PrNumbers == { 7, 42 }
IdleCall == [pc |-> "idle", number |-> 0, config |-> [token |-> TRUE, owner |-> TRUE]]
NoContext == [pullRequest |-> Absent, signal |-> NoSignal]

Init == /\ program \in {"ts", "go"}
        /\ env \in Environments
        /\ mainPc = "start"
        /\ iter = 0
        /\ tasks = [i \in 1..MaxIter |-> IdleTask]
        /\ out = <<>>
        /\ goPc = "start"
        /\ goResp = NoResponse
        /\ goGets = 0
        /\ prCall = IdleCall
        /\ metaReq = IdleReq
        /\ filesReq = IdleReq
        /\ context = NoContext

\* console.log("Jira Ticket Analyzer (Press Ctrl+C to exit)")
Start ==
  /\ program = "ts"
  /\ mainPc = "start"
  /\ mainPc' = "prompt"
  /\ out' = Append(out, LS(0, "Jira Ticket Analyzer (Press Ctrl+C to exit)", ""))
  /\ UNCHANGED <<program, env, iter, tasks, goVars, prVars>>

\* readlineSync.question(...) returns input; fetchJiraTicket is called with
\* the trimmed input and runs up to its first await
Question(input) ==
  /\ mainPc = "prompt"
  /\ iter < MaxIter
  /\ iter' = iter + 1
  /\ LET i == iter + 1
         ticketNumber == Trim(input)
         asked == Line(i, "Enter Jira ticket number (e.g., PROJ-123):", "",
                       0, input)
     IN IF ticketNumber = <<>>
        THEN /\ mainPc' = "prompt"
             /\ out' = Append(out, asked)
             /\ UNCHANGED tasks
        ELSE IF ConfigMissing(env)
        THEN /\ mainPc' = Await(i)
             /\ out' = out \o <<asked, LS(i, "Please set JIRA_EMAIL, JIRA_API_TOKEN, and JIRA_DOMAIN environment variables", "")>>
             /\ tasks' = [tasks EXCEPT ![i].pc = "done",
                                       ![i].ticketNumber = ticketNumber]
        ELSE /\ mainPc' = Await(i)
             /\ out' = Append(out, asked)
             /\ tasks' = [tasks EXCEPT ![i].pc = "fetching",
                                       ![i].ticketNumber = ticketNumber,
                                       ![i].gets = @ + 1]
  /\ UNCHANGED <<program, env, goVars, prVars>>

\* the awaited promise has settled: main goes round the loop, or the
\* rejection leaves main and ends the process
Resume ==
  /\ mainPc = "awaiting"
  /\ tasks[iter].pc \in {"done", "rejected"}
  /\ mainPc' = IF tasks[iter].pc = "rejected" THEN "crashed" ELSE "prompt"
  /\ UNCHANGED <<program, env, iter, tasks, out, goVars, prVars>>

\* a fetch that is issued once more after it failed
FetchRejectsRetry(i) ==
  /\ tasks[i].pc = "fetching"
  /\ IF tasks[i].gets < 2
     THEN /\ tasks' = [tasks EXCEPT ![i].gets = @ + 1]
          /\ UNCHANGED out
     ELSE LET r == fetchCatch(i, Threw(<<>>, "fetch failed"))
          IN /\ tasks' = [tasks EXCEPT ![i].pc = Leave(r)]
             /\ out' = out \o r.lines
  /\ UNCHANGED <<program, env, mainPc, iter, goVars, prVars>>

\* fetch(url, ...) rejects: malformed URL, no connection, DNS failure, ...
FetchRejects(i) ==
  /\ tasks[i].pc = "fetching"
  /\ LET r == fetchCatch(i, Threw(<<>>, "fetch failed"))
     IN /\ tasks' = [tasks EXCEPT ![i].pc = Leave(r)]
        /\ out' = out \o r.lines
  /\ UNCHANGED <<program, env, mainPc, iter, goVars, prVars>>

\* fetch(url, ...) resolves with a response; if (!response.ok) chooses
\* between reading the body as text and parsing it as JSON
FetchResolves(i, response) ==
  /\ tasks[i].pc = "fetching"
  /\ ValidUrl(env)
  /\ tasks' = [tasks EXCEPT ![i].response = response,
                            ![i].pc = IF ~Ok(response.status) THEN "text"
                                      ELSE "json"]
  /\ UNCHANGED <<program, env, mainPc, iter, out, goVars, prVars>>

\* await response.text() settles
TextSettles(i) ==
  /\ tasks[i].pc = "text"
  /\ LET response == tasks[i].response
         r == fetchCatch(i,
                IF ~response.readable THEN Threw(<<>>, "body unreadable")
                ELSE Ran(<<Line(i, "Error: API returned status code", "",
                                response.status, <<>>),
                           LS(i, "Response body:", response.body)>>))
     IN /\ tasks' = [tasks EXCEPT ![i].pc = Leave(r)]
        /\ out' = out \o r.lines
  /\ UNCHANGED <<program, env, mainPc, iter, goVars, prVars>>

\* await response.json() settles, and the code runs on to the return, to
\* the catch or to the awaited chain.invoke
JsonSettles(i) ==
  /\ tasks[i].pc = "json"
  /\ LET response == tasks[i].response
         jiraResp == JSONParse(response.body)
         a == IF ~response.readable
              THEN Stopped(Threw(<<>>, "body unreadable"))
              ELSE IF jiraResp = SyntaxError
              THEN Stopped(Threw(<<>>, "SyntaxError"))
              ELSE AfterJson(i, tasks[i].ticketNumber, jiraResp)
         r == fetchCatch(i, a.r)
     IN /\ out' = out \o r.lines
        /\ IF a.invoked /\ r.thrown = ""
           THEN tasks' = [tasks EXCEPT
                  ![i].pc = "invoking",
                  ![i].invokes = @ + 1,
                  ![i].modelInput = a.args]
           ELSE tasks' = [tasks EXCEPT ![i].pc = Leave(r)]
  /\ UNCHANGED <<program, env, mainPc, iter, goVars, prVars>>

\* one attempt of the invoker at the backend fails: it is retried while
\* retries are left, then chain.invoke rejects
ModelAttemptFails(i) ==
  /\ tasks[i].pc = "invoking"
  /\ IF tasks[i].attempts < maxRetries
     THEN /\ tasks' = [tasks EXCEPT ![i].attempts = @ + 1]
          /\ UNCHANGED out
     ELSE LET r == fetchCatch(i, analyzeCatch(i, Threw(<<>>, "ModelUnavailable")))
          IN /\ tasks' = [tasks EXCEPT ![i].pc = Leave(r), ![i].attempts = 0]
             /\ out' = out \o r.lines
  /\ UNCHANGED <<program, env, mainPc, iter, goVars, prVars>>

Completions == { "The ticket asks for a fix." }

\* chain.invoke resolves with the completion
ModelResponds(i, completion) ==
  /\ tasks[i].pc = "invoking"
  /\ tasks' = [tasks EXCEPT ![i].pc = "done", ![i].attempts = 0]
  /\ out' = out \o <<LS(i, "AI Analysis:", ""), LS(i, "response", completion),
                     LS(i, "-------------------", "")>>
  /\ UNCHANGED <<program, env, mainPc, iter, goVars, prVars>>


\* ------------------------------------------------------------ the Go program
\* os.Getenv: the value, or "" when the variable is not set
Getenv(x) == IF x.t = "string" THEN x.v ELSE ""

\* if email == "" || apiToken == "" || jiraDomain == ""
GoConfigMissing(e) ==
  Getenv(e.JIRA_EMAIL) = "" \/ Getenv(e.JIRA_API_TOKEN) = ""
    \/ Getenv(e.JIRA_DOMAIN) = ""

\* a string field of the decoded struct: absent and null leave the zero value
GoString(x) == IF x.t = "string" THEN x.v ELSE ""

\* one element of JiraResponse.Issues
GoIssue(x) ==
  [Key |-> GoString(Get(x, "key")),
   Summary |-> GoString(Get(Get(x, "fields"), "summary")),
   Status |-> GoString(Get(Get(Get(x, "fields"), "status"), "name"))]

\* json.Unmarshal(body, &jiraResp): the issues, when err == nil
GoUnmarshal(raw) ==
  LET v == JSONParse(raw)
      issues == Get(v, "issues")
  IN IF issues.t = "array"
     THEN [j \in 1..Len(issues.e) |-> GoIssue(issues.e[j])]
     ELSE <<>>

GoUnmarshalErr(raw) == JSONParse(raw) = SyntaxError

\* for _, issue := range jiraResp.Issues { ... }
RECURSIVE GoPrintIssues(_)
GoPrintIssues(issues) ==
  IF issues = <<>> THEN <<>>
  ELSE << LS(0, "Issue Key:", Head(issues).Key),
          LS(0, "Summary:", Head(issues).Summary),
          LS(0, "Status:", Head(issues).Status),
          LS(0, "-------------------", "") >> \o GoPrintIssues(Tail(issues))

\* main up to client.Do(req)
GoMain ==
  /\ program = "go"
  /\ goPc = "start"
  /\ IF GoConfigMissing(env)
     THEN /\ out' = Append(out, LS(0, "Please set JIRA_EMAIL, JIRA_API_TOKEN, and JIRA_DOMAIN environment variables", ""))
          /\ goPc' = "exit"
          /\ UNCHANGED goGets
     ELSE IF ~ValidUrl(env)
     THEN /\ out' = Append(out, LS(0, "Error creating request:", "invalid URL"))
          /\ goPc' = "exit"
          /\ UNCHANGED goGets
     ELSE /\ goPc' = "do"
          /\ goGets' = goGets + 1
          /\ UNCHANGED out
  /\ UNCHANGED <<program, env, mainPc, iter, tasks, goResp, prVars>>

\* client.Do(req) returns an error
GoDoFails ==
  /\ goPc = "do"
  /\ goPc' = "exit"
  /\ out' = Append(out, LS(0, "Error making request:", "transport"))
  /\ UNCHANGED <<program, env, mainPc, iter, tasks, goResp, goGets, prVars>>

\* client.Do(req) returns a response
GoDoReturns(response) ==
  /\ goPc = "do"
  /\ goPc' = "readall"
  /\ goResp' = response
  /\ UNCHANGED <<program, env, mainPc, iter, tasks, out, goGets, prVars>>

\* io.ReadAll(resp.Body) and the rest of main
GoReadAll ==
  /\ goPc = "readall"
  /\ goPc' = "exit"
  /\ out' = out \o
       (IF ~goResp.readable
        THEN <<LS(0, "Error reading response:", "body unreadable")>>
        ELSE IF goResp.status # 200
        THEN <<Line(0, "Error: API returned status code", "", goResp.status, <<>>),
               LS(0, "Response body:", goResp.body)>>
        ELSE IF GoUnmarshalErr(goResp.body)
        THEN <<LS(0, "Error parsing JSON:", "SyntaxError")>>
        ELSE GoPrintIssues(GoUnmarshal(goResp.body)))
  /\ UNCHANGED <<program, env, mainPc, iter, tasks, goResp, goGets, prVars>>


\* ------------------------------------------ fetchPullRequest and the assembler
\* assemble calls fetchPullRequest(number, repo): with configuration missing
\* it returns absent at once, otherwise both GETs are issued
PrFetch(number, config) ==
  /\ program = "pr"
  /\ prCall.pc \in {"idle", "joined"}
  /\ IF ~config.token \/ ~config.owner
     THEN /\ prCall' = [pc |-> "joined", number |-> number, config |-> config]
          /\ metaReq' = IdleReq
          /\ filesReq' = IdleReq
          /\ context' = [pullRequest |-> Absent,
                         signal |-> [NoSignal EXCEPT !.kind = "ConfigurationMissing"]]
     ELSE /\ prCall' = [pc |-> "requesting", number |-> number, config |-> config]
          /\ metaReq' = PendingReq
          /\ filesReq' = PendingReq
          /\ context' = NoContext
  /\ UNCHANGED <<program, env, mainPc, iter, tasks, out, goVars>>

\* the metadata request is answered, or fails without an answer
MetaSettles(status, meta) ==
  /\ prCall.pc = "requesting"
  /\ metaReq.state = "pending"
  /\ metaReq' = Settled(status, IF Ok(status) THEN meta ELSE NoMeta, <<>>)
  /\ UNCHANGED <<program, env, mainPc, iter, tasks, out, goVars, prCall,
                 filesReq, context>>

\* the file list request is answered, or fails without an answer
FilesSettle(status, files) ==
  /\ prCall.pc = "requesting"
  /\ filesReq.state = "pending"
  /\ filesReq' = Settled(status, NoMeta, IF Ok(status) THEN files ELSE <<>>)
  /\ UNCHANGED <<program, env, mainPc, iter, tasks, out, goVars, prCall,
                 metaReq, context>>

\* both requests have settled: the fetch returns and the assembler stores
\* the result in the context
PrJoin ==
  /\ prCall.pc = "requesting"
  /\ metaReq.state = "settled"
  /\ filesReq.state = "settled"
  /\ prCall' = [prCall EXCEPT !.pc = "joined"]
  /\ context' = Join(metaReq, filesReq)
  /\ UNCHANGED <<program, env, mainPc, iter, tasks, out, goVars, metaReq,
                 filesReq>>

PrStatuses == { 0, 200, 404, 500 }

InitPR ==
  /\ program = "pr"
  /\ env = [JIRA_EMAIL |-> Undefined, JIRA_API_TOKEN |-> Undefined,
            JIRA_DOMAIN |-> Undefined]
  /\ mainPc = "start"
  /\ iter = 0
  /\ tasks = [i \in 1..MaxIter |-> IdleTask]
  /\ out = <<>>
  /\ goPc = "start"
  /\ goResp = NoResponse
  /\ goGets = 0
  /\ prCall = IdleCall
  /\ metaReq = IdleReq
  /\ filesReq = IdleReq
  /\ context = NoContext

NextPR ==
  \/ \E number \in PrNumbers : \E config \in PrConfigs : PrFetch(number, config)
  \/ \E status \in PrStatuses : \E meta \in Metas : MetaSettles(status, meta)
  \/ \E status \in PrStatuses : \E files \in FileLists : FilesSettle(status, files)
  \/ PrJoin

SpecPR == InitPR /\ [][NextPR]_vars

Next ==
  \/ Start
  \/ \E input \in Inputs : Question(input)
  \/ Resume
  \/ \E i \in 1..MaxIter : FetchRejects(i)
  \/ \E i \in 1..MaxIter : \E response \in Responses : FetchResolves(i, response)
  \/ \E i \in 1..MaxIter : TextSettles(i)
  \/ \E i \in 1..MaxIter : JsonSettles(i)
  \/ \E i \in 1..MaxIter : ModelAttemptFails(i)
  \/ \E i \in 1..MaxIter : \E completion \in Completions : ModelResponds(i, completion)
  \/ GoMain
  \/ GoDoFails
  \/ \E response \in Responses : GoDoReturns(response)
  \/ GoReadAll

Spec == Init /\ [][Next]_vars

\* the continuation of an await runs once the awaited promise has settled
FairSpec == Spec /\ WF_vars(Resume)

\* ------------------------------------------------------- reading the console
Iterations == 1..MaxIter

\* the lines printed on behalf of iteration i, in order
LinesOf(i) == SelectSeq(out, LAMBDA l : l.it = i)

Kinds(i) == { out[j].k : j \in { n \in 1..Len(out) : out[n].it = i } }

QuestionKind == "Enter Jira ticket number (e.g., PROJ-123):"
GuidanceKind == "Please set JIRA_EMAIL, JIRA_API_TOKEN, and JIRA_DOMAIN environment variables"

\* iteration i has been asked its question
Asked(i) == i <= iter

\* the line typed in iteration i
Typed(i) == LinesOf(i)[1].tk

Blank(s) == \A j \in 1..Len(s) : s[j] = " "

Absentee(v) == v = Undefined \/ v = Str("")
AnyConfigAbsent ==
  Absentee(env.JIRA_EMAIL) \/ Absentee(env.JIRA_API_TOKEN) \/ Absentee(env.JIRA_DOMAIN)

Success(status) == status \in 200..299

\* the fetch of iteration i has finished with the response it was given
Answered(i) == tasks[i].pc \in {"done", "rejected", "invoking"} /\ tasks[i].response # NoResponse

ErrorKinds == { "Error fetching Jira data:", "Error analyzing with Ollama:",
                "Error: API returned status code", "No ticket found with number" }

\* ------------------------------------------------------------------- claims

\* C1: no error escapes to end the loop: main never terminates on a rejected
\* promise, an error raised by the model invocation is logged by
\* analyzeWithOllama and one raised by the fetch by fetchJiraTicket, and once
\* the current iteration has logged its failure the loop comes back to the
\* question.
C1_NoErrorEscapes ==
  /\ [](/\ mainPc # "crashed"
        /\ \A i \in Iterations : tasks[i].pc # "rejected"
        /\ \A j \in { n \in 1..Len(out) : out[n].it \in Iterations } :
             /\ out[j].s = "ModelUnavailable" => out[j].k = "Error analyzing with Ollama:"
             /\ out[j].s \in {"fetch failed", "SyntaxError", "body unreadable", "TypeError"}
                  => out[j].k = "Error fetching Jira data:")
  /\ \A i \in Iterations :
       (iter = i /\ Kinds(i) \cap ErrorKinds # {}) ~> (mainPc = "prompt")

C1_Witness ==
  /\ mainPc = "prompt"
  /\ \E i, k \in Iterations :
       /\ "Error analyzing with Ollama:" \in Kinds(i)
       /\ "Error fetching Jira data:" \in Kinds(k)

\* C2: with any of email, API token or domain missing, a requested fetch
\* prints the guidance message and nothing else, calls neither the network
\* nor the model, and the program does not crash.
C2_ConfigMissing ==
  AnyConfigAbsent =>
    /\ mainPc # "crashed"
    /\ goGets = 0
    /\ goPc = "exit" => out = <<LS(0, GuidanceKind, "")>>
    /\ \A i \in Iterations :
         /\ tasks[i].gets = 0
         /\ tasks[i].invokes = 0
         /\ tasks[i].pc \in {"idle", "done"}
         /\ (Asked(i) /\ ~Blank(Typed(i))) =>
               /\ tasks[i].pc = "done"
               /\ Len(LinesOf(i)) = 2
               /\ LinesOf(i)[2] = LS(i, GuidanceKind, "")

C2_Witness ==
  /\ AnyConfigAbsent
  /\ program = "ts"
  /\ mainPc = "prompt"
  /\ \E i \in Iterations : tasks[i].pc = "done"

\* C3: a successful response whose result set is empty ends the fetch with
\* the not-found message for the ticket asked for and nothing else: no
\* error, no ticket details, no model invocation.
C3_ZeroIssues ==
  \A i \in Iterations :
    (/\ Answered(i)
     /\ Success(tasks[i].response.status)
     /\ tasks[i].response.readable
     /\ tasks[i].response.body = "issues:[]")
    => /\ tasks[i].pc = "done"
       /\ tasks[i].invokes = 0
       /\ Len(LinesOf(i)) = 2
       /\ LinesOf(i)[2] = Line(i, "No ticket found with number", "", 0, <<"P", "1">>)

C3_Witness ==
  \E i \in Iterations :
    /\ Answered(i)
    /\ tasks[i].response.body = "issues:[]"
    /\ tasks[i].response.status = 200
    /\ "No ticket found with number" \in Kinds(i)
    /\ mainPc = "prompt"

\* the symptoms of a response treated as a ticket
TreatedAsTicket(i) ==
  \/ tasks[i].invokes > 0
  \/ "Ticket Details:" \in Kinds(i)
  \/ "No ticket found with number" \in Kinds(i)

\* C4 as stated: every response with a non-success status is reported with
\* its status code and its raw body, is never parsed as a ticket, prints no
\* ticket details and invokes no model.
C4_Original ==
  /\ \A i \in Iterations :
       (Answered(i) /\ ~Success(tasks[i].response.status))
       => /\ tasks[i].pc = "done"
          /\ ~TreatedAsTicket(i)
          /\ Len(LinesOf(i)) = 3
          /\ LinesOf(i)[2] = Line(i, "Error: API returned status code", "",
                                  tasks[i].response.status, <<>>)
          /\ LinesOf(i)[3] = LS(i, "Response body:", tasks[i].response.body)
  /\ (goPc = "exit" /\ goResp # NoResponse /\ ~Success(goResp.status))
       => out = << Line(0, "Error: API returned status code", "", goResp.status, <<>>),
                   LS(0, "Response body:", goResp.body) >>

\* C4, amended: a response with a non-success status is never parsed as a
\* ticket, prints no ticket details and invokes no model; it is reported
\* with its status code and raw body when the body can be read, and as a
\* transport error (without the status) when reading the body fails.
C4_UpstreamError ==
  /\ \A i \in Iterations :
       (Answered(i) /\ ~Success(tasks[i].response.status))
       => /\ tasks[i].pc = "done"
          /\ ~TreatedAsTicket(i)
          /\ IF tasks[i].response.readable
             THEN /\ Len(LinesOf(i)) = 3
                  /\ LinesOf(i)[2] = Line(i, "Error: API returned status code", "",
                                          tasks[i].response.status, <<>>)
                  /\ LinesOf(i)[3] = LS(i, "Response body:", tasks[i].response.body)
             ELSE /\ Len(LinesOf(i)) = 2
                  /\ LinesOf(i)[2] = LS(i, "Error fetching Jira data:", "body unreadable")
  /\ (goPc = "exit" /\ goResp # NoResponse /\ ~Success(goResp.status))
       => out = IF goResp.readable
                THEN << Line(0, "Error: API returned status code", "", goResp.status, <<>>),
                        LS(0, "Response body:", goResp.body) >>
                ELSE << LS(0, "Error reading response:", "body unreadable") >>

C4_Witness ==
  /\ \E i \in Iterations :
       /\ Answered(i)
       /\ tasks[i].response = [status |-> 404, body |-> "issues:[A]", readable |-> TRUE]
  /\ \E i \in Iterations :
       /\ Answered(i)
       /\ tasks[i].response = [status |-> 404, body |-> "", readable |-> FALSE]

ExpectedDescription(body) ==
  IF body \in {"issues:[C]", "issues:[C,A]"} THEN "Steps"
  ELSE "No description provided"

\* C6: a ticket whose description is empty, null or missing reaches the
\* console and the prompt as 'No description provided', any other
\* description reaches them unchanged, and the template never receives an
\* empty or null description.
C6_Description ==
  \A i \in Iterations :
    tasks[i].invokes > 0
    => /\ tasks[i].modelInput.description.t = "string"
       /\ tasks[i].modelInput.description.v # ""
       /\ Prompt(tasks[i].modelInput)[3]
            = <<"Description:", ExpectedDescription(tasks[i].response.body)>>
       /\ LinesOf(i)[6] = LS(i, "Description:", ExpectedDescription(tasks[i].response.body))

C6_Witness ==
  \E i, k \in Iterations :
    /\ tasks[i].invokes > 0 /\ tasks[i].response.body = "issues:[A]"
    /\ tasks[k].invokes > 0 /\ tasks[k].response.body = "issues:[C]"

\* C7: the pull request fetch is both-or-nothing under every order of the two
\* answers: the context holds a pull request exactly when both requests were
\* answered with a success status, then with both parts as received, and
\* otherwise holds nothing of either part.
C7_BothOrNothing ==
  /\ prCall.pc # "joined" => context.pullRequest = Absent
  /\ prCall.pc = "joined" =>
       IF /\ metaReq.state = "settled" /\ Success(metaReq.status)
          /\ filesReq.state = "settled" /\ Success(filesReq.status)
       THEN context.pullRequest = [present |-> TRUE, record |-> metaReq.meta,
                                   files |-> filesReq.files]
       ELSE context.pullRequest = [present |-> FALSE, record |-> NoMeta,
                                   files |-> <<>>]

C7_Witness ==
  /\ prCall.pc = "joined"
  /\ metaReq.state = "settled" /\ metaReq.status = 200
  /\ filesReq.state = "settled" /\ filesReq.status = 404

\* C8: an iteration calls fetch at most once and never again after a
\* failure: no call when the identifier is empty or configuration is
\* missing, exactly one otherwise, whatever the answer.
C8_OneGet ==
  /\ goGets <= 1
  /\ \A i \in Iterations :
       /\ tasks[i].gets <= 1
       /\ Asked(i) =>
            (tasks[i].gets = 0 <=> (Blank(Typed(i)) \/ AnyConfigAbsent))
       /\ ~Asked(i) => tasks[i].gets = 0

C8_Witness ==
  \E i \in Iterations :
    /\ tasks[i].pc = "done"
    /\ tasks[i].gets = 1
    /\ tasks[i].response = NoResponse
    /\ "Error fetching Jira data:" \in Kinds(i)
    /\ mainPc = "prompt"

InFlightFetches == { i \in Iterations : tasks[i].pc \in {"fetching", "text", "json"} }
InFlightInvocations == { i \in Iterations : tasks[i].pc = "invoking" }

\* C9: one task at a time: at most one fetch and at most one model
\* invocation are in flight, the question is asked only when every earlier
\* fetch and invocation has completed, and the console shows the iterations
\* one after the other.
C9_SingleTask ==
  /\ Cardinality(InFlightFetches) <= 1
  /\ Cardinality(InFlightInvocations) <= 1
  /\ Cardinality(InFlightFetches \cup InFlightInvocations) <= 1
  /\ mainPc = "prompt" => \A i \in Iterations : tasks[i].pc \in {"idle", "done"}
  /\ \A i \in Iterations : i < iter => tasks[i].pc \in {"idle", "done"}
  /\ \A j, k \in 1..Len(out) : j < k => out[j].it <= out[k].it

C9_Witness ==
  /\ iter = 2
  /\ tasks[1].pc = "done" /\ tasks[1].invokes = 1
  /\ tasks[2].pc = "invoking"

\* the key of the first issue of a body that holds a complete issue
FirstKey(body) ==
  CASE body = "issues:[A]" -> "PROJ-1"
    [] body = "issues:[B]" -> "PROJ-2"
    [] body \in {"issues:[C]", "issues:[C,A]"} -> "PROJ-3"
    [] body = "issues:[D]" -> "PROJ-6"
    [] OTHER -> "none"

\* position of the first line of kind k among the lines of iteration i, or 0
FirstOf(i, k) ==
  LET ls == LinesOf(i)
      at == { j \in 1..Len(ls) : ls[j].k = k }
  IN IF at = {} THEN 0 ELSE CHOOSE j \in at : \A m \in at : j <= m

\* C10: the model is invoked at most once per iteration and only after a
\* configured fetch made one call that was answered with a success status
\* and a readable result holding an issue; it is given the first issue, after
\* that issue's details were printed, and 'AI Analysis:' is printed only
\* once the invocation has returned without an error.
C10_ModelInvocation ==
  \A i \in Iterations :
    /\ tasks[i].invokes <= 1
    /\ tasks[i].invokes = 1 =>
         /\ ~AnyConfigAbsent
         /\ tasks[i].gets = 1
         /\ Success(tasks[i].response.status)
         /\ tasks[i].response.readable
         /\ FirstKey(tasks[i].response.body) # "none"
         /\ tasks[i].modelInput.key = Str(FirstKey(tasks[i].response.body))
         /\ SubSeq(LinesOf(i), 2, 3) =
              << LS(i, "Ticket Details:", ""),
                 LS(i, "Issue Key:", FirstKey(tasks[i].response.body)) >>
         /\ { LinesOf(i)[j].k : j \in 4..7 } =
              { "Summary:", "Status:", "Description:", "-------------------" }
         /\ FirstOf(i, "Connecing with model:") = 8
    /\ "AI Analysis:" \in Kinds(i) =>
         /\ tasks[i].invokes = 1
         /\ tasks[i].pc = "done"
         /\ "Error analyzing with Ollama:" \notin Kinds(i)
         /\ FirstOf(i, "AI Analysis:") = 9

C10_Witness ==
  \E i \in Iterations :
    /\ tasks[i].response.body = "issues:[C,A]"
    /\ "AI Analysis:" \in Kinds(i)
====
